---- MODULE Spec2Model ----
(***************************************************************************)
(* Model of label_studio/data_export/api.py: the export REST views.        *)
(*                                                                         *)
(*   Spec        export jobs: create, asynchronous completion, list,       *)
(*               retrieve, delete, download                                *)
(*   SpecAuth    the nginx auth_request check on X-Original-URI            *)
(*   SpecFiles   the legacy export file listing                            *)
(*   SpecExport  the synchronous export of a project's tasks               *)
(*                                                                         *)
(* Text (URIs, file names) is a sequence of one-character strings, so that *)
(* split, replace, endswith, int() and str() are computed, not assumed.    *)
(***************************************************************************)
EXTENDS Integers, Sequences, FiniteSets, TLC

VARIABLES exports, next_pk, calls, response, export_dir, tasks

vars == <<exports, next_pk, calls, response, export_dir, tasks>>

(***************************************************************************)
(* Bounds of the model.                                                    *)
(***************************************************************************)
\* Export records ever created.
MaxExports == 2
\* Characters of an X-Original-URI before and after its '/export/' part.
MaxUri == 2
\* Characters of an export file name before its suffix.
MaxStem == 3
\* Entries of the export directory.
MaxFiles == 2
\* Tasks in the database.
MaxTasks == 3
\* Stands for the batch size of ExportAPI.get (1000 in the code).
BatchSize == 2

(***************************************************************************)
(* Python's None, and text helpers.                                        *)
(***************************************************************************)
None == [none |-> TRUE]

Digits == <<"0", "1", "2", "3", "4", "5", "6", "7", "8", "9">>

IsDigit(c) == \E i \in 1..10 : Digits[i] = c

DigitVal(c) == (CHOOSE i \in 1..10 : Digits[i] = c) - 1

\* Code points of the characters the model uses (Python compares str by them).
Ord(c) ==
    CASE c = " " -> 32
      [] c = "+" -> 43
      [] c = "-" -> 45
      [] c = "." -> 46
      [] c = "/" -> 47
      [] IsDigit(c) -> 48 + DigitVal(c)
      [] c = "_" -> 95
      [] c = "e" -> 101
      [] c = "f" -> 102
      [] c = "i" -> 105
      [] c = "j" -> 106
      [] c = "n" -> 110
      [] c = "o" -> 111
      [] c = "p" -> 112
      [] c = "r" -> 114
      [] c = "s" -> 115
      [] c = "t" -> 116
      [] c = "v" -> 118
      [] c = "x" -> 120

\* All texts over alphabet A of length at most n.
Texts(A, n) == UNION {[1..k -> A] : k \in 0..n}

StartsWithAt(s, i, t) ==
    /\ i + Len(t) - 1 <= Len(s)
    /\ \A k \in 1..Len(t) : s[i + k - 1] = t[k]

\* str.endswith(suffix)
EndsWith(s, suffix) ==
    /\ Len(suffix) <= Len(s)
    /\ StartsWithAt(s, Len(s) - Len(suffix) + 1, suffix)

\* str.replace(old, ''): every non-overlapping occurrence, left to right.
RECURSIVE RemoveAll(_, _)
RemoveAll(s, old) ==
    IF s = <<>> THEN <<>>
    ELSE IF old # <<>> /\ StartsWithAt(s, 1, old)
         THEN RemoveAll(SubSeq(s, Len(old) + 1, Len(s)), old)
         ELSE <<Head(s)>> \o RemoveAll(Tail(s), old)

\* str.split(sep) for a one-character separator: always at least one part.
RECURSIVE Split(_, _)
Split(s, sep) ==
    IF \A i \in 1..Len(s) : s[i] # sep THEN <<s>>
    ELSE LET i == CHOOSE k \in 1..Len(s) :
                      s[k] = sep /\ \A m \in 1..(k - 1) : s[m] # sep
         IN <<SubSeq(s, 1, i - 1)>> \o Split(SubSeq(s, i + 1, Len(s)), sep)

\* str(n) for n >= 0.
RECURSIVE Str(_)
Str(n) ==
    IF n < 10 THEN <<Digits[n + 1]>>
    ELSE Str(n \div 10) \o <<Digits[(n % 10) + 1]>>

\* str.strip() for the blank the model uses.
RECURSIVE LStrip(_)
LStrip(s) == IF s # <<>> /\ Head(s) = " " THEN LStrip(Tail(s)) ELSE s

RECURSIVE RStrip(_)
RStrip(s) ==
    IF s # <<>> /\ s[Len(s)] = " " THEN RStrip(SubSeq(s, 1, Len(s) - 1)) ELSE s

\* Digits with single underscores between them (the body of an int literal).
IsIntBody(s) ==
    /\ s # <<>>
    /\ IsDigit(s[1])
    /\ IsDigit(s[Len(s)])
    /\ \A i \in 1..Len(s) : IsDigit(s[i]) \/ s[i] = "_"
    /\ \A i \in 1..(Len(s) - 1) : ~(s[i] = "_" /\ s[i + 1] = "_")

RECURSIVE IntBodyVal(_, _)
IntBodyVal(s, acc) ==
    IF s = <<>> THEN acc
    ELSE IF Head(s) = "_" THEN IntBodyVal(Tail(s), acc)
         ELSE IntBodyVal(Tail(s), 10 * acc + DigitVal(Head(s)))

\* int(text): [ok |-> TRUE, val |-> n], or ok = FALSE where Python raises
\* ValueError.  Blanks around the number, one sign, underscores between digits.
ParseInt(text) ==
    LET s == RStrip(LStrip(text))
        signed == s # <<>> /\ Head(s) \in {"+", "-"}
        body == IF signed THEN Tail(s) ELSE s
    IN IF IsIntBody(body)
       THEN [ok |-> TRUE,
             val |-> IF signed /\ Head(s) = "-"
                     THEN 0 - IntBodyVal(body, 0)
                     ELSE IntBodyVal(body, 0)]
       ELSE [ok |-> FALSE, val |-> 0]

\* Python's str comparison: a < b.
RECURSIVE TextLess(_, _)
TextLess(a, b) ==
    IF b = <<>> THEN FALSE
    ELSE IF a = <<>> THEN TRUE
    ELSE IF Head(a) = Head(b) THEN TextLess(Tail(a), Tail(b))
    ELSE Ord(Head(a)) < Ord(Head(b))

\* sorted(S) of a set of texts, ascending.
RECURSIVE Sorted(_)
Sorted(S) ==
    IF S = {} THEN <<>>
    ELSE LET m == CHOOSE x \in S : \A y \in S : y = x \/ TextLess(x, y)
         IN <<m>> \o Sorted(S \ {m})

\* seq[::-1]
Reversed(seq) == [i \in 1..Len(seq) |-> seq[Len(seq) + 1 - i]]

(***************************************************************************)
(* Users, organizations and projects.  No view of this file changes them.  *)
(***************************************************************************)
Users == {"u1", "u2"}

\* request.user.active_organization
ActiveOrganization(user) == IF user = "u1" THEN "orgA" ELSE "orgB"

\* The Project table: primary key -> organization.
ProjectOrganization == (1 :> "orgA") @@ (2 :> "orgB") @@ (11 :> "orgA")

Projects == DOMAIN ProjectOrganization

\* The paths of the export job requests: two projects of one organization
\* and the key that names none; the second user belongs to another
\* organization.
JobPathPks == {1, 3, 11}

\* Project.objects.filter(organization=self.request.user.active_organization)
OrganizationProjects(user) ==
    {p \in Projects : ProjectOrganization[p] = ActiveOrganization(user)}

\* Project.objects.for_user(user)
for_user(user) == OrganizationProjects(user)

(***************************************************************************)
(* Requests.  request.GET is a set of <<name, value>> pairs.               *)
(***************************************************************************)
\* request.GET.get(key): None when the parameter is absent.
QueryGet(GET, key) ==
    IF \E p \in GET : p[1] = key
    THEN [value |-> (CHOOSE p \in GET : p[1] = key)[2]]
    ELSE None

\* The request a response answers.
Request(op, user, pk, export_pk, query, data) ==
    [op |-> op, user |-> user, pk |-> pk, export_pk |-> export_pk,
     query |-> query, data |-> data]

\* A response: status and body (detail for a message, items for records,
\* file and headers for a download), and what serving it read or called.
MakeResponse(req, status, detail, items, file, headers, effects) ==
    [req |-> req, status |-> status, detail |-> detail, items |-> items,
     file |-> file, headers |-> headers, effects |-> effects]

\* Response(data) / HttpResponse(text, status)
DetailResponse(req, status, detail) ==
    MakeResponse(req, status, detail, <<>>, None, {}, {})

\* Response(serializer.data)
DataResponse(req, status, items) ==
    MakeResponse(req, status, "", items, None, {}, {})

\* Http404 raised by get_object_or_404, as the framework renders it.
NotFound(req) == DetailResponse(req, 404, "Not found.")

\* The response before any request was served.
NoResponse == DetailResponse(Request("none", "u1", 0, 0, {}, {}), 0, "")

(***************************************************************************)
(* The Export table.  exports maps a primary key to its record; the model  *)
(* of the Export class (status, file, convert_file, the background job) is *)
(* taken from the specification, the class is not part of this file.       *)
(***************************************************************************)
\* Export.Status
StatusCreated == "created"
StatusFailed == "failed"
StatusCompleted == "completed"

\* The file a finished job stores, and the one convert_file produces.
SnapshotFile == [name |-> <<"s", ".", "j", "s", "o", "n">>]
ConvertedFile == [name |-> <<"s", ".", "c", "s", "v">>]

\* Bodies of a POST, as validated by ExportCreateSerializer.
CreateBodies ==
    {[task_filter_options |-> "tf1", annotation_filter_options |-> "af1",
      serialization_options |-> "so1"],
     [task_filter_options |-> "tf2", annotation_filter_options |-> "af2",
      serialization_options |-> "so2"]}

\* Values of the exportType parameter of a download.
DownloadQueries == {{}, {<<"exportType", "CSV">>}}

\* Primary keys an export_pk path segment may carry.
ExportPks == 1..MaxExports

\* A save that does not take the project from the URL path.
SerializerSave_FirstProject(db, instance, project, user) ==
    db @@ (instance :> [project |-> 1, created_by |-> user,
                        created_at |-> instance, status |-> StatusCreated,
                        file |-> None])

\* serializer.save(project=project, created_by=self.request.user)
SerializerSave(db, instance, project, user) ==
    db @@ (instance :> [project |-> project, created_by |-> user,
                        created_at |-> instance, status |-> StatusCreated,
                        file |-> None])

\* instance.run_file_exporting(...): the job request handed to the runner.
\* saved tells whether the record was in the table when the call was made.
run_file_exporting(db, instance, options) ==
    [export |-> instance,
     saved |-> instance \in DOMAIN db,
     task_filter_options |-> options.task_filter_options,
     annotation_filter_options |-> options.annotation_filter_options,
     serialization_options |-> options.serialization_options]

\* A lookup of the project that skips the check of the user's access.
ExportListAPI_get_project_Unchecked(user, pk) == [value |-> pk]

\* ExportListAPI._get_project: the project, or None for Http404.
ExportListAPI_get_project(user, pk) ==
    IF pk \in for_user(user) THEN [value |-> pk] ELSE None

\* ExportListAPI.get_queryset, after _get_project succeeded:
\* Export.objects.all().order_by('-created_at').filter(project=project)
ExportListAPI_get_queryset(project) ==
    {e \in DOMAIN exports : exports[e].project = project}

\* The queryset as a list, newest first.
RECURSIVE OrderByCreatedAtDesc(_)
OrderByCreatedAtDesc(S) ==
    IF S = {} THEN <<>>
    ELSE LET m == CHOOSE x \in S :
                      \A y \in S : exports[y].created_at <= exports[x].created_at
         IN <<m>> \o OrderByCreatedAtDesc(S \ {m})

\* ExportSerializer(instance).data
ExportData(e) == [id |-> e, project |-> exports[e].project,
                  created_by |-> exports[e].created_by,
                  status |-> exports[e].status]

\* ExportListAPI.post -> perform_create
ExportListAPI_perform_create(user, pk, data) ==
    LET req == Request("create", user, pk, 0, {}, {data})
        task_filter_options == data.task_filter_options
        annotation_filter_options == data.annotation_filter_options
        serialization_options == data.serialization_options
        project == ExportListAPI_get_project(user, pk)
        instance == next_pk
        saved == SerializerSave(exports, instance, project.value, user)
    IN /\ IF project = None
          THEN /\ response' = NotFound(req)
               /\ UNCHANGED <<exports, next_pk, calls>>
          ELSE /\ next_pk <= MaxExports
               /\ exports' = saved
               /\ next_pk' = next_pk + 1
               /\ calls' = Append(calls,
                      run_file_exporting(saved, instance,
                          [task_filter_options |-> task_filter_options,
                           annotation_filter_options |-> annotation_filter_options,
                           serialization_options |-> serialization_options]))
               /\ response' = DataResponse(req, 201,
                                  <<[id |-> instance, project |-> project.value,
                                     created_by |-> user,
                                     status |-> StatusCreated]>>)
       /\ UNCHANGED <<export_dir, tasks>>

\* ExportListAPI.get (ListModelMixin.list over get_queryset)
ExportListAPI_list(user, pk) ==
    LET req == Request("list", user, pk, 0, {}, {})
        project == ExportListAPI_get_project(user, pk)
        found == OrderByCreatedAtDesc(ExportListAPI_get_queryset(project.value))
    IN /\ response' =
            IF project = None
            THEN NotFound(req)
            ELSE DataResponse(req, 200,
                     [i \in 1..Len(found) |-> ExportData(found[i])])
       /\ UNCHANGED <<exports, next_pk, calls, export_dir, tasks>>

\* ExportDetailAPI._get_project
ExportDetailAPI_get_project(user, pk) ==
    IF pk \in for_user(user) THEN [value |-> pk] ELSE None

\* A queryset that is not filtered by the project of the path.
ExportDetailAPI_get_queryset_Unscoped(project) == DOMAIN exports

\* ExportDetailAPI.get_queryset, after _get_project succeeded
ExportDetailAPI_get_queryset(project) ==
    {e \in DOMAIN exports : exports[e].project = project}

\* GenericAPIView.get_object of ExportDetailAPI (lookup_url_kwarg export_pk):
\* the instance, or None for Http404.
ExportDetailAPI_get_object(user, pk, export_pk) ==
    LET project == ExportDetailAPI_get_project(user, pk)
    IN IF project = None THEN None
       ELSE IF export_pk \in ExportDetailAPI_get_queryset(project.value)
            THEN [value |-> export_pk]
            ELSE None

\* ExportDetailAPI.get (RetrieveModelMixin.retrieve)
ExportDetailAPI_retrieve(user, pk, export_pk) ==
    LET req == Request("retrieve", user, pk, export_pk, {}, {})
        instance == ExportDetailAPI_get_object(user, pk, export_pk)
    IN /\ response' =
            IF instance = None
            THEN NotFound(req)
            ELSE DataResponse(req, 200, <<ExportData(instance.value)>>)
       /\ UNCHANGED <<exports, next_pk, calls, export_dir, tasks>>

\* ExportDetailAPI.delete (DestroyModelMixin.destroy)
ExportDetailAPI_destroy(user, pk, export_pk) ==
    LET req == Request("delete", user, pk, export_pk, {}, {})
        instance == ExportDetailAPI_get_object(user, pk, export_pk)
    IN /\ IF instance = None
          THEN /\ response' = NotFound(req)
               /\ UNCHANGED exports
          ELSE /\ response' = DataResponse(req, 204, <<>>)
               /\ exports' = [e \in DOMAIN exports \ {instance.value} |->
                                 exports[e]]
       /\ UNCHANGED <<next_pk, calls, export_dir, tasks>>

\* ExportDownloadAPI._get_project
ExportDownloadAPI_get_project(user, pk) ==
    IF pk \in for_user(user) THEN [value |-> pk] ELSE None

\* ExportDownloadAPI.get_queryset, after _get_project succeeded
ExportDownloadAPI_get_queryset(project) ==
    {e \in DOMAIN exports : exports[e].project = project}

\* GenericAPIView.get_object of ExportDownloadAPI
ExportDownloadAPI_get_object(user, pk, export_pk) ==
    LET project == ExportDownloadAPI_get_project(user, pk)
    IN IF project = None THEN None
       ELSE IF export_pk \in ExportDownloadAPI_get_queryset(project.value)
            THEN [value |-> export_pk]
            ELSE None

\* instance.convert_file(export_type): the converted file, or None when the
\* conversion yields nothing.
convert_file_results == {None, ConvertedFile}

\* The headers of a download: content type, Content-Disposition, filename.
DownloadHeaders(file_) ==
    LET parts == Split(file_.name, ".")
        ext == parts[Len(parts)]
    IN {<<"Content-Type", <<"application/">> \o ext>>,
        <<"Content-Disposition",
          <<"attachment; filename=\"">> \o file_.name \o <<"\"">>>>,
        <<"filename", file_.name>>}

\* A download that treats only a record not yet worked on as incomplete.
NotCompleted_OnlyCreated(instance) == exports[instance].status = StatusCreated

\* instance.status != Export.Status.COMPLETED
NotCompleted(instance) == exports[instance].status # StatusCompleted

\* A download that ignores the exportType parameter.
ResolveFile_IgnoreType(export_type, instance, converted) ==
    <<"file", "", exports[instance].file>>

\* The file ExportDownloadAPI.get resolves, as <<how, export type, file>>:
\* instance.file without an exportType, instance.convert_file(export_type)
\* with one (converted is what that call returns).
ResolveFile(export_type, instance, converted) ==
    IF export_type = None
    THEN <<"file", "", exports[instance].file>>
    ELSE <<"convert_file", export_type.value, converted>>

\* ExportDownloadAPI.get, once get_object returned instance.
DownloadResponse(req, instance, converted) ==
    LET export_type == QueryGet(req.query, "exportType")
        resolved == ResolveFile(export_type, instance, converted)
        file_ == resolved[3]
    IN IF NotCompleted(instance)
       THEN DetailResponse(req, 404, "Export is not completed")
       ELSE IF file_ = None
            THEN MakeResponse(req, 404, "Can't get file", <<>>, None, {},
                              {resolved})
            ELSE MakeResponse(req, 200, "", <<>>, file_,
                              DownloadHeaders(file_), {resolved})

\* ExportDownloadAPI.get
ExportDownloadAPI_get(user, pk, export_pk, query) ==
    LET req == Request("download", user, pk, export_pk, query, {})
        instance == ExportDownloadAPI_get_object(user, pk, export_pk)
    IN /\ IF instance = None
          THEN response' = NotFound(req)
          ELSE IF NotCompleted(instance.value)
                  \/ QueryGet(query, "exportType") = None
               THEN \* convert_file is not called
                    response' = DownloadResponse(req, instance.value, None)
               ELSE \E converted \in convert_file_results :
                        response' = DownloadResponse(req, instance.value, converted)
       /\ UNCHANGED <<exports, next_pk, calls, export_dir, tasks>>

(***************************************************************************)
(* The background job.  calls is the queue of job requests.  The runner    *)
(* takes a request off the queue and finishes the record it names: to      *)
(* completed, with its file, or to failed.  A request for a record deleted *)
(* in the meantime is dropped.                                             *)
(***************************************************************************)
\* The positions of the queue that hold a request for record e.
Pending(e) == {i \in 1..Len(calls) : calls[i].export = e}

\* seq without its element at position i.
RemoveAt(seq, i) == SubSeq(seq, 1, i - 1) \o SubSeq(seq, i + 1, Len(seq))

\* The record a job request can still work on.
Runnable(i) ==
    /\ calls[i].export \in DOMAIN exports
    /\ exports[calls[i].export].status = StatusCreated

JobComplete(i) ==
    /\ i \in 1..Len(calls)
    /\ calls' = RemoveAt(calls, i)
    /\ IF Runnable(i)
       THEN exports' = [exports EXCEPT ![calls[i].export].status = StatusCompleted,
                                       ![calls[i].export].file = SnapshotFile]
       ELSE UNCHANGED exports
    /\ UNCHANGED <<next_pk, response, export_dir, tasks>>

JobFail(i) ==
    /\ i \in 1..Len(calls)
    /\ Runnable(i)
    /\ calls' = RemoveAt(calls, i)
    /\ exports' = [exports EXCEPT ![calls[i].export].status = StatusFailed]
    /\ UNCHANGED <<next_pk, response, export_dir, tasks>>

(***************************************************************************)
(* The export jobs: Spec.                                                  *)
(***************************************************************************)
Init ==
    /\ exports = <<>>
    /\ next_pk = 1
    /\ calls = <<>>
    /\ response = NoResponse
    /\ export_dir = {}
    /\ tasks = <<>>

Create == \E user \in Users, pk \in JobPathPks, data \in CreateBodies :
              ExportListAPI_perform_create(user, pk, data)

List == \E user \in Users, pk \in JobPathPks : ExportListAPI_list(user, pk)

Retrieve == \E user \in Users, pk \in JobPathPks, export_pk \in ExportPks :
                ExportDetailAPI_retrieve(user, pk, export_pk)

Delete == \E user \in Users, pk \in JobPathPks, export_pk \in ExportPks :
              ExportDetailAPI_destroy(user, pk, export_pk)

Download == \E user \in Users, pk \in JobPathPks, export_pk \in ExportPks,
               query \in DownloadQueries :
                ExportDownloadAPI_get(user, pk, export_pk, query)

Job == \E i \in 1..MaxExports : JobComplete(i) \/ JobFail(i)

Next == Create \/ List \/ Retrieve \/ Delete \/ Download \/ Job

Spec == Init /\ [][Next]_vars

(***************************************************************************)
(* The auth check for nginx auth_request: SpecAuth.  A behaviour serves    *)
(* one request, drawn by InitAuth.                                         *)
(***************************************************************************)
\* A request not answered yet.
PendingRequest(req) == DetailResponse(req, 0, "")

Answered == response.status # 0

\* '/export/'
ExportSegment == <<"/", "e", "x", "p", "o", "r", "t", "/">>

\* The characters of the X-Original-URI values tried.
UriChars == {"1", "2", "-", "x", "_"}

\* The X-Original-URI values tried: with and without an '/export/' part.
OriginalUris ==
    Texts(UriChars, MaxUri)
        \cup {a \o ExportSegment \o b : a, b \in Texts(UriChars, MaxUri)}

\* An extraction of the project id that leaves '/export/' in the file name.
AuthProjectId_NoReplace(original_url) == Split(original_url, "-")[1]

\* filename = original_url.replace('/export/', '')
\* project_id = filename.split('-')[0]
AuthProjectId(original_url) ==
    LET filename == RemoveAll(original_url, ExportSegment)
    IN Split(filename, "-")[1]

\* A lookup among the projects of every organization.
AuthQueryset_AllProjects(user) == Projects

\* Project.objects.filter(organization=self.request.user.active_organization)
AuthQueryset(user) == OrganizationProjects(user)

\* ProjectExportFilesAuthCheck.get
ProjectExportFilesAuthCheck_get ==
    LET req == response.req
        original_url == CHOOSE h \in req.data : TRUE
        project_id == AuthProjectId(original_url)
        pk == ParseInt(project_id)
    IN /\ ~Answered
       /\ req.op = "auth"
       /\ response' =
            IF ~pk.ok
            THEN DetailResponse(req, 422, "Incorrect filename in export")
            ELSE IF pk.val \notin AuthQueryset(req.user)
                 THEN NotFound(req)
                 ELSE DetailResponse(req, 200, "auth ok")
       /\ UNCHANGED <<exports, next_pk, calls, export_dir, tasks>>

InitAuth ==
    /\ exports = <<>>
    /\ next_pk = 1
    /\ calls = <<>>
    /\ export_dir = {}
    /\ tasks = <<>>
    /\ \E user \in Users, original_url \in OriginalUris :
           response = PendingRequest(
               Request("auth", user, 0, 0, {}, {original_url}))

NextAuth == ProjectExportFilesAuthCheck_get

SpecAuth == InitAuth /\ [][NextAuth]_vars

(***************************************************************************)
(* The listing of legacy export files: SpecFiles.  A behaviour serves one  *)
(* request on one content of the export directory, drawn by InitFiles.     *)
(***************************************************************************)
\* settings.EXPORT_URL_ROOT
EXPORT_URL_ROOT == ExportSegment

\* The characters of the file names tried, before the suffix.
StemChars == {"1", "-"}

FileSuffixes ==
    {<<".", "j", "s", "o", "n">>,
     <<"-", "i", "n", "f", "o", ".", "j", "s", "o", "n">>,
     <<".", "t", "x", "t">>}

\* The file names tried.
FileNames == {stem \o suffix : stem \in Texts(StemChars, MaxStem),
                               suffix \in FileSuffixes}

\* The subsets of S of at most k elements.
RECURSIVE SubsetsUpTo(_, _)
SubsetsUpTo(S, k) ==
    IF k = 0 THEN {{}}
    ELSE LET smaller == SubsetsUpTo(S, k - 1)
         IN smaller \cup {d \cup {x} : d \in smaller, x \in S}

\* The contents of the export directory tried: os.listdir(settings.EXPORT_DIR).
Directories == SubsetsUpTo(FileNames, MaxFiles)

\* The paths of project 1 and 11, by users of their and another organization.
FilesPathPks == {1, 11}

\* A test of the project that accepts a name that starts with the id.
IsExportOf_Prefix(name, pk) ==
    /\ EndsWith(name, <<".", "j", "s", "o", "n">>)
    /\ ~EndsWith(name, <<"-", "i", "n", "f", "o", ".", "j", "s", "o", "n">>)
    /\ StartsWithAt(name, 1, Str(pk))

\* The test of ProjectExportFiles.get on a directory entry.
IsExportOf(name, pk) ==
    /\ EndsWith(name, <<".", "j", "s", "o", "n">>)
    /\ ~EndsWith(name, <<"-", "i", "n", "f", "o", ".", "j", "s", "o", "n">>)
    /\ Split(name, "-")[1] = Str(pk)

\* A listing in ascending order.
ExportItems_Ascending(paths) ==
    LET ordered == Sorted(paths)
    IN [i \in 1..Len(ordered) |->
           [name |-> Split(Split(ordered[i], "/")[3], ".")[1],
            url |-> ordered[i]]]

\* [{'name': p.split('/')[2].split('.')[0], 'url': p}
\*  for p in sorted(paths)[::-1]]
ExportItems(paths) ==
    LET ordered == Reversed(Sorted(paths))
    IN [i \in 1..Len(ordered) |->
           [name |-> Split(Split(ordered[i], "/")[3], ".")[1],
            url |-> ordered[i]]]

\* ProjectExportFiles.get
ProjectExportFiles_get ==
    LET req == response.req
        paths == {EXPORT_URL_ROOT \o name :
                     name \in {n \in export_dir : IsExportOf(n, req.pk)}}
    IN /\ ~Answered
       /\ req.op = "files"
       /\ response' =
            IF req.pk \notin OrganizationProjects(req.user)
            THEN NotFound(req)
            ELSE DataResponse(req, 200, ExportItems(paths))
       /\ UNCHANGED <<exports, next_pk, calls, export_dir, tasks>>

InitFiles ==
    /\ exports = <<>>
    /\ next_pk = 1
    /\ calls = <<>>
    /\ tasks = <<>>
    /\ export_dir \in Directories
    /\ \E user \in Users, pk \in FilesPathPks :
           response = PendingRequest(Request("files", user, pk, 0, {}, {}))

NextFiles == ProjectExportFiles_get

SpecFiles == InitFiles /\ [][NextFiles]_vars

(***************************************************************************)
(* The synchronous export: SpecExport.  A behaviour serves one request on  *)
(* one content of the Task table, drawn by InitExport.  tasks maps a task  *)
(* id to its project and the number of its annotations.                    *)
(***************************************************************************)
\* The Task tables tried: ids 1..n, each task of project 1 or 11, without
\* annotations or with two.
TaskTables ==
    UNION {[1..n -> [project : {1, 11}, annotations : {0, 2}]] :
              n \in 0..MaxTasks}

\* The query strings tried.
ExportQueries ==
    {ids \cup all \cup type :
        ids \in SUBSET {<<"ids[]", t>> : t \in 1..MaxTasks},
        all \in {{}, {<<"download_all_tasks", "true">>},
                 {<<"download_all_tasks", "false">>}},
        type \in {{}, {<<"exportType", "CSV">>}, {<<"export_type", "COCO">>},
                  {<<"exportType", "CSV">>, <<"export_type", "COCO">>},
                  {<<"download_resources", "false">>}}}

\* request.GET.getlist(key), as the set of its values.
QueryGetList(GET, key) == {p[2] : p \in {q \in GET : q[1] = key}}

\* bool_from_request(params, key, default)
bool_from_request(GET, key, default) ==
    LET value == QueryGet(GET, key)
    IN IF value = None THEN default ELSE value.value \in {"true", "1"}

\* settings.CONVERTER_DOWNLOAD_RESOURCES
CONVERTER_DOWNLOAD_RESOURCES == TRUE

\* A queryset is the sequence of its rows, each the id of a task.
\* The tasks of every project.
FilterProject_All(project) == [i \in 1..Len(tasks) |-> i]

\* Task.objects.filter(project=project)
FilterProject(project) ==
    LET OfProject(t) == tasks[t].project = project
    IN SelectSeq([i \in 1..Len(tasks) |-> i], OfProject)

\* queryset.filter(id__in=ids)
FilterIdIn(rows, ids) ==
    LET Listed(t) == t \in ids
    IN SelectSeq(rows, Listed)

\* queryset.filter(annotations__isnull=False): the join with the
\* annotations, one row for each annotation of a task.
RECURSIVE FilterAnnotationsNotNull(_)
FilterAnnotationsNotNull(rows) ==
    IF rows = <<>> THEN <<>>
    ELSE [k \in 1..tasks[Head(rows)].annotations |-> Head(rows)]
             \o FilterAnnotationsNotNull(Tail(rows))

\* queryset.distinct()
RECURSIVE Distinct(_)
Distinct(rows) ==
    IF rows = <<>> THEN <<>>
    ELSE LET rest == Distinct(SubSeq(rows, 1, Len(rows) - 1))
             last == rows[Len(rows)]
         IN IF \E i \in 1..Len(rest) : rest[i] = last
            THEN rest
            ELSE Append(rest, last)

\* The query of ExportAPI.get: the tasks of the project, of the listed ids
\* if any are listed, with an annotation if only_finished.
ExportQuery(project, tasks_ids, only_finished) ==
    LET of_project == FilterProject(project)
        selected == IF tasks_ids # {}
                    THEN FilterIdIn(of_project, tasks_ids)
                    ELSE of_project
    IN IF only_finished
       THEN Distinct(FilterAnnotationsNotNull(selected))
       ELSE selected

\* batch(iterable, n): the slices [0:n], [n:2n], ... of the iterable.
RECURSIVE batch(_, _)
batch(iterable, n) ==
    IF iterable = <<>> THEN <<>>
    ELSE IF Len(iterable) <= n THEN <<iterable>>
    ELSE <<SubSeq(iterable, 1, n)>>
             \o batch(SubSeq(iterable, n + 1, Len(iterable)), n)

\* ExportDataSerializer(queryset, many=True).data
ExportDataSerializer(rows) ==
    [i \in 1..Len(rows) |->
        [id |-> rows[i], annotations |-> tasks[rows[i]].annotations]]

\* A loop that keeps the tasks of the last batch only.
RECURSIVE SerializeBatches_LastOnly(_, _)
SerializeBatches_LastOnly(query, batches) ==
    IF batches = <<>> THEN <<>>
    ELSE ExportDataSerializer(
             FilterIdIn(query, {batches[Len(batches)][i] :
                                   i \in 1..Len(batches[Len(batches)])}))

\* for _task_ids in batches:
\*     tasks += ExportDataSerializer(query.filter(id__in=_task_ids), many=True).data
RECURSIVE SerializeBatches(_, _)
SerializeBatches(query, batches) ==
    IF batches = <<>> THEN <<>>
    ELSE ExportDataSerializer(
             FilterIdIn(query, {Head(batches)[i] : i \in 1..Len(Head(batches))}))
         \o SerializeBatches(query, Tail(batches))

\* The file name DataExport.generate_export_file returns.
ExportFileName(export_type) == [name |-> <<"export.", export_type>>]

\* ExportAPI.get
ExportAPI_get ==
    LET req == response.req
        GET == req.query
        export_type ==
            IF QueryGet(GET, "exportType") # None
            THEN QueryGet(GET, "exportType").value
            ELSE IF QueryGet(GET, "export_type") # None
                 THEN QueryGet(GET, "export_type").value
                 ELSE "JSON"
        only_finished == ~bool_from_request(GET, "download_all_tasks", FALSE)
        tasks_ids == QueryGetList(GET, "ids[]")
        download_resources ==
            IF QueryGet(GET, "download_resources") # None
            THEN bool_from_request(GET, "download_resources", TRUE)
            ELSE CONVERTER_DOWNLOAD_RESOURCES
        query == ExportQuery(req.pk, tasks_ids, only_finished)
        task_ids == query
        handed == SerializeBatches(query, batch(task_ids, BatchSize))
        file_ == ExportFileName(export_type)
    IN /\ ~Answered
       /\ req.op = "export"
       /\ response' =
            IF req.pk \notin OrganizationProjects(req.user)
            THEN NotFound(req)
            ELSE MakeResponse(req, 200, "", handed, file_,
                     {<<"Content-Disposition",
                        <<"attachment; filename=\"">> \o file_.name \o <<"\"">>>>,
                      <<"filename", file_.name>>},
                     {<<"generate_export_file", export_type, download_resources>>})
       /\ UNCHANGED <<exports, next_pk, calls, export_dir, tasks>>

InitExport ==
    /\ exports = <<>>
    /\ next_pk = 1
    /\ calls = <<>>
    /\ export_dir = {}
    /\ tasks \in TaskTables
    /\ \E user \in Users, pk \in FilesPathPks, query \in ExportQueries :
           response = PendingRequest(Request("export", user, pk, 0, query, {}))

NextExport == ExportAPI_get

SpecExport == InitExport /\ [][NextExport]_vars

(***************************************************************************)
(* Properties of the export jobs.                                          *)
(***************************************************************************)
\* Whether the request of the last response addressed record e through the
\* project e belongs to, as a user of that project's organization.
Addressed(e) ==
    /\ response.req.export_pk = e
    /\ e \in DOMAIN exports
    /\ exports[e].project = response.req.pk
    /\ response.req.pk \in OrganizationProjects(response.req.user)

\* C1: a download returns file content only for an Export whose status is
\* COMPLETED; for an Export of any other status it answers 404 with the body
\* 'Export is not completed' and neither reads instance.file nor calls
\* convert_file.  (A status never leaves completed and a record never comes
\* back, so the record of the last download still shows its status.)
C1_DownloadOnlyCompleted ==
    response.req.op = "download" =>
        LET e == response.req.export_pk
        IN /\ (response.status = 200 \/ response.file # None
                   \/ response.effects # {})
               => (Addressed(e) /\ exports[e].status = StatusCompleted)
           /\ (Addressed(e) /\ exports[e].status # StatusCompleted)
               => /\ response.status = 404
                  /\ response.detail = "Export is not completed"
                  /\ response.file = None
                  /\ response.headers = {}
                  /\ response.effects = {}

\* C1 witness: a download of a failed Export was refused.
C1_Witness ==
    /\ response.req.op = "download"
    /\ Addressed(response.req.export_pk)
    /\ exports[response.req.export_pk].status = StatusFailed
    /\ response.detail = "Export is not completed"

\* The primary keys a list response carries.
ItemIds(items) == {items[i].id : i \in 1..Len(items)}

\* What the last response shows about the scoping of the request it answers.
ScopedResponse ==
    LET req == response.req
        e == req.export_pk
    IN /\ (req.op = "list" /\ response.status = 200)
           => /\ ItemIds(response.items) =
                     {x \in DOMAIN exports : exports[x].project = req.pk}
              /\ \A i \in 1..Len(response.items) :
                     response.items[i].project = req.pk
       /\ (req.op = "retrieve" /\ response.status = 200)
           => /\ response.items[1].id = e
              /\ response.items[1].project = req.pk
              /\ Addressed(e)
       /\ (req.op = "download" /\ response.detail # "Not found.")
           => Addressed(e)
       /\ (/\ req.op \in {"retrieve", "delete", "download"}
           /\ e \in DOMAIN exports
           /\ exports[e].project # req.pk)
           => (response.status = 404 /\ response.detail = "Not found.")

\* A record leaves the table only by a delete addressed through its project.
ScopedDelete ==
    \A e \in DOMAIN exports :
        e \notin DOMAIN exports' =>
            /\ response'.req.op = "delete"
            /\ response'.req.export_pk = e
            /\ response'.req.pk = exports[e].project
            /\ response'.req.pk \in OrganizationProjects(response'.req.user)
            /\ response'.status = 204
            /\ DOMAIN exports' = DOMAIN exports \ {e}

\* A request answered 404, a list, a retrieve and a download leave the
\* records as they are.
ReadsChangeNothing ==
    (/\ response' # response
     /\ \/ response'.status = 404
        \/ response'.req.op \in {"list", "retrieve", "download"})
        => UNCHANGED <<exports, next_pk, calls>>

\* C2: export job operations are scoped to the project of the URL path: a
\* list on P returns exactly the exports of P; retrieve, delete and download
\* addressed as (P, e) succeed only when e belongs to P; when e belongs to
\* another project the answer is 404 and e is left unchanged, not deleted.
C2_ProjectScoped ==
    /\ []ScopedResponse
    /\ [][ScopedDelete /\ ReadsChangeNothing]_vars

\* C2 witness: a record of project 11 was addressed through project 1, by a
\* user who may see both, and the answer was 404 with the record in place.
C2_Witness ==
    /\ response.req.op = "delete"
    /\ response.req.user = "u1"
    /\ response.req.pk = 1
    /\ response.req.export_pk \in DOMAIN exports
    /\ exports[response.req.export_pk].project = 11
    /\ response.status = 404

\* The job request of record e with the options of a POST body.
JobRequest(e, data) ==
    [export |-> e, saved |-> TRUE,
     task_filter_options |-> data.task_filter_options,
     annotation_filter_options |-> data.annotation_filter_options,
     serialization_options |-> data.serialization_options]

\* A step that adds a record, draws a primary key, queues a job request or
\* answers a POST with 201 is one successful POST: it adds exactly one
\* record, of the project of the path and the requesting user, and then
\* queues exactly one job request for it, with the options of the body.
CreatesOneAndTriggers ==
    (\/ ~(DOMAIN exports' \subseteq DOMAIN exports)
     \/ next_pk' # next_pk
     \/ Len(calls') > Len(calls)
     \/ (response' # response /\ response'.req.op = "create"
            /\ response'.status = 201))
        => LET req == response'.req
               e == next_pk
           IN /\ req.op = "create"
              /\ response'.status = 201
              /\ response'.items[1].id = e
              /\ e \notin DOMAIN exports
              /\ DOMAIN exports' = DOMAIN exports \cup {e}
              /\ \A x \in DOMAIN exports : exports'[x] = exports[x]
              /\ exports'[e].project = req.pk
              /\ exports'[e].created_by = req.user
              /\ exports'[e].status = StatusCreated
              /\ \E data \in req.data : calls' = Append(calls, JobRequest(e, data))

\* Every record not yet worked on has exactly one job request queued, and
\* no record has two.
EveryCreatedTriggered ==
    \A e \in 1..MaxExports + 1:
        /\ Cardinality(Pending(e)) <= 1
        /\ (e \in DOMAIN exports /\ exports[e].status = StatusCreated)
               => Cardinality(Pending(e)) = 1
        /\ (e \in DOMAIN exports /\ exports[e].status # StatusCreated)
               => Pending(e) = {}

\* C6: a successful POST creates exactly one Export record, of the project of
\* the URL path and created by the requesting user, and then, with the
\* record saved, invokes run_file_exporting exactly once on it with the
\* options of the request; every record created has had its generation
\* triggered.
C6_CreateTriggersExport ==
    /\ []EveryCreatedTriggered
    /\ [][CreatesOneAndTriggers]_vars

\* C6 witness: a POST on project 11 was answered 201 and its job request,
\* with the options of the second body, is queued.
C6_Witness ==
    /\ response.req.op = "create"
    /\ response.status = 201
    /\ response.req.pk = 11
    /\ Len(calls) > 0
    /\ calls[Len(calls)].export = response.items[1].id
    /\ calls[Len(calls)].task_filter_options = "tf2"

\* C7: for a COMPLETED Export the download resolves the file as
\* instance.file when no exportType is given and as convert_file(exportType)
\* otherwise; it answers 404 "Can't get file" exactly when the resolved file
\* is None, and otherwise returns the file with Content-Disposition and
\* filename headers carrying the file's name.
C7_DownloadResolvesFile ==
    (/\ response.req.op = "download"
     /\ response.detail \notin {"Not found.", "Export is not completed"})
        => LET e == response.req.export_pk
               export_type == QueryGet(response.req.query, "exportType")
               resolved == CHOOSE r \in response.effects : TRUE
           IN /\ exports[e].status = StatusCompleted
              /\ Cardinality(response.effects) = 1
              /\ IF export_type = None
                 THEN resolved = <<"file", "", exports[e].file>>
                 ELSE /\ resolved[1] = "convert_file"
                      /\ resolved[2] = export_type.value
                      /\ resolved[3] \in convert_file_results
              /\ IF resolved[3] = None
                 THEN /\ response.status = 404
                      /\ response.detail = "Can't get file"
                      /\ response.file = None
                      /\ response.headers = {}
                 ELSE /\ response.status = 200
                      /\ response.detail = ""
                      /\ response.file = resolved[3]
                      /\ <<"Content-Disposition",
                           <<"attachment; filename=\"">> \o resolved[3].name
                               \o <<"\"">>>> \in response.headers
                      /\ <<"filename", resolved[3].name>> \in response.headers

\* C7 witness: a conversion that yielded nothing was answered "Can't get file".
C7_Witness ==
    /\ response.req.op = "download"
    /\ response.detail = "Can't get file"
    /\ response.effects = {<<"convert_file", "CSV", None>>}

\* A POST on a project that is not of the user's organization changes
\* nothing, and a step that adds a record, draws a primary key or queues a
\* job request is a POST on a project of the user's organization.
OnlyAccessibleCreates ==
    /\ (response'.req.op = "create" /\ response' # response
            /\ response'.req.pk \notin OrganizationProjects(response'.req.user))
           => UNCHANGED <<exports, next_pk, calls>>
    /\ (\/ ~(DOMAIN exports' \subseteq DOMAIN exports)
        \/ next_pk' # next_pk
        \/ Len(calls') > Len(calls))
           => /\ response'.req.op = "create"
              /\ response'.req.pk \in OrganizationProjects(response'.req.user)

\* A POST on a project that does not exist or is not the user's is answered 404.
InaccessibleCreate404 ==
    (response.req.op = "create"
        /\ response.req.pk \notin OrganizationProjects(response.req.user))
        => (response.status = 404 /\ response.detail = "Not found.")

OriginalUri == CHOOSE h \in response.req.data : TRUE

\* int() of the text before the first '-' of the URI without '/export/'.
UriProject == ParseInt(Split(RemoveAll(OriginalUri, ExportSegment), "-")[1])

\* Whether the URI names a project of the requesting user's organization.
UriProjectIsUsers ==
    /\ UriProject.ok
    /\ UriProject.val \in Projects
    /\ ProjectOrganization[UriProject.val] =
           ActiveOrganization(response.req.user)

\* C3: the auth check answers 200 'auth ok' only if the project id taken from
\* X-Original-URI names a Project of the requesting user's active
\* organization; a file of a project of another organization, or of no
\* project, never receives 200.
C3_AuthOnlyOwnProjects ==
    (Answered /\ response.req.op = "auth")
        => /\ (response.status = 200 \/ response.detail = "auth ok")
                  => UriProjectIsUsers
           /\ ~UriProjectIsUsers => response.status \in {404, 422}

\* C3 witness: the first user asked for '/export/2-', a file of the other
\* organization's project, and was not answered 200.
C3_Witness ==
    /\ Answered
    /\ response.req.op = "auth"
    /\ response.req.user = "u1"
    /\ OriginalUri = ExportSegment \o <<"2", "-">>
    /\ response.status = 404

ListedName(name, pk) ==
    /\ EndsWith(name, <<".", "j", "s", "o", "n">>)
    /\ ~EndsWith(name, <<"-", "i", "n", "f", "o", ".", "j", "s", "o", "n">>)
    /\ StartsWithAt(name, 1, Str(pk) \o <<"-">>)

\* C8: the listing of project pk returns exactly the directory entries that
\* end with '.json', do not end with '-info.json' and whose text before the
\* first '-' is str(pk), each as {name, url} with url = EXPORT_URL_ROOT +
\* file name, in descending order of url; no file of another project (pk 1
\* against a file '11-...') is listed.
C8_FilesOfProject ==
    (Answered /\ response.req.op = "files" /\ response.status = 200)
        => LET items == response.items
           IN /\ {items[i].url : i \in 1..Len(items)} =
                     {EXPORT_URL_ROOT \o n :
                         n \in {x \in export_dir : ListedName(x, response.req.pk)}}
              /\ \A i \in 1..Len(items) : DOMAIN items[i] = {"name", "url"}
              /\ \A i, j \in 1..Len(items) :
                     i < j => TextLess(items[j].url, items[i].url)

\* C8 witness: project 1 was listed with '11-.json' and '1-.json' in the
\* directory, and only the second was returned.
C8_Witness ==
    /\ Answered
    /\ response.req.op = "files"
    /\ response.req.pk = 1
    /\ export_dir = {<<"1", "1", "-", ".", "j", "s", "o", "n">>,
                     <<"1", "-", ".", "j", "s", "o", "n">>}
    /\ Len(response.items) = 1
    /\ response.items[1].url =
           EXPORT_URL_ROOT \o <<"1", "-", ".", "j", "s", "o", "n">>

(***************************************************************************)
(* Properties of the synchronous export.                                   *)
(***************************************************************************)
\* The ids of the tasks handed to DataExport.generate_export_file.
HandedIds == {response.items[i].id : i \in 1..Len(response.items)}

\* The ids[] of the request, and whether it asks for all tasks.
RequestedIds == {p[2] : p \in {q \in response.req.query : q[1] = "ids[]"}}

DownloadAllTasks == <<"download_all_tasks", "true">> \in response.req.query

\* The tasks the request selects.
SelectedTasks ==
    {t \in DOMAIN tasks :
        /\ tasks[t].project = response.req.pk
        /\ RequestedIds = {} \/ t \in RequestedIds
        /\ DownloadAllTasks \/ tasks[t].annotations > 0}

\* C5: the tasks handed to DataExport.generate_export_file for project P are
\* exactly the tasks t of P with (ids[] empty or t.id in ids[]) and
\* (download_all_tasks true or t annotated); download_all_tasks defaults to
\* false, and a task of another project is never handed over, even when its
\* id is listed in ids[].
C5_ExportedTaskSet ==
    (Answered /\ response.req.op = "export" /\ response.status = 200)
        => HandedIds = SelectedTasks

\* C5 witness: project 1 was exported with ids[] naming task 1 of project 1
\* and task 2 of project 11, both annotated, download_all_tasks absent, and
\* task 1 alone was handed over.
C5_Witness ==
    /\ Answered
    /\ response.req.op = "export"
    /\ response.req.pk = 1
    /\ response.req.query = {<<"ids[]", 1>>, <<"ids[]", 2>>}
    /\ Len(tasks) >= 2
    /\ tasks[1] = [project |-> 1, annotations |-> 2]
    /\ tasks[2] = [project |-> 11, annotations |-> 2]
    /\ HandedIds = {1}

\* C9: batched serialization equals unbatched serialization: whatever the
\* number of selected tasks (none, fewer than a batch, a multiple of the
\* batch size or not), the per-batch results concatenated hold every selected
\* task exactly once, none omitted and none duplicated across batches.
C9_BatchedEqualsUnbatched ==
    (Answered /\ response.req.op = "export" /\ response.status = 200)
        => /\ \A t \in SelectedTasks :
                  Cardinality({i \in 1..Len(response.items) :
                                  response.items[i].id = t}) = 1
           /\ Len(response.items) = Cardinality(SelectedTasks)
           /\ response.items =
                  ExportDataSerializer(
                      ExportQuery(response.req.pk, RequestedIds, ~DownloadAllTasks))

\* C9 witness: more selected tasks than one batch holds, and no multiple of
\* the batch size, were handed over.
C9_Witness ==
    /\ Answered
    /\ response.req.op = "export"
    /\ response.status = 200
    /\ Len(response.items) > BatchSize
    /\ Len(response.items) % BatchSize # 0

====
